---- MODULE Spec2Model ----
(***************************************************************************)
(* Model of cargo's network retry layer, src/cargo/util/network.rs:        *)
(* the classifier maybe_spurious, the budget Retry (new, try) and the      *)
(* driver with_retry.                                                      *)
(*                                                                         *)
(* An anyhow::Error is modelled as its chain of causes, outermost first,   *)
(* together with the number of leading nodes that downcast_ref can see:    *)
(* the values attached with .context() and the error object they were      *)
(* attached to.  Nodes after that are reachable only through               *)
(* std::error::Error::source(), which root_cause() follows and             *)
(* downcast_ref does not.                                                  *)
(***************************************************************************)
EXTENDS Integers, Sequences, FiniteSets, TLC

\* Largest value of net.retry the model puts in the configuration.
MaxRetry == 3

\* Longest cause chain of an error handed to the classifier.
MaxDepth == 3

\* unwrap_or(2) in Retry::new.
DefaultRetry == 2

\* The retry sessions (calls of with_retry) of the model.
Sessions == {1, 2}

----------------------------------------------------------------------------
(* Error values                                                            *)

Node(t, cl, co, sp) == [type |-> t, class |-> cl, code |-> co, spurious |-> sp]

\* git2::ErrorCode::Certificate, by its libgit2 value.
Certificate == -17

GitClasses == {"Net", "Os", "Zlib", "Http", "Ssl"}
\* Certificate and one other code (GenericError, -1).
GitCodes == {Certificate, -1}

\* CURLcode values: the ten the classifier asks about and three others
\* (unsupported protocol, HTTP returned error, peer failed verification).
CurlCodes == {5, 6, 7, 16, 18, 28, 35, 55, 56, 92, 1, 22, 60}

HttpCodes == {404, 499, 500, 501, 502, 599, 600}

GitErr(cl, co) == Node("git2", cl, co, FALSE)
CurlErr(co) == Node("curl", "-", co, FALSE)
HttpNotSuccessful(co) == Node("http", "-", co, FALSE)
FetchErr(sp) == Node("fetch", "-", 0, sp)
\* A plain message: a string context or an error made of a string.
Msg == Node("msg", "-", 0, FALSE)
\* The error of a failed write to the shell, and of an unreadable
\* configuration.
IoNode == Node("io", "-", 0, FALSE)
ConfigNode == Node("config", "-", 0, FALSE)
NoNode == Node("none", "-", 0, FALSE)

Nodes ==
    {GitErr(cl, co) : cl \in GitClasses, co \in GitCodes}
    \cup {CurlErr(co) : co \in CurlCodes}
    \cup {HttpNotSuccessful(co) : co \in HttpCodes}
    \cup {FetchErr(sp) : sp \in BOOLEAN}
    \cup {Msg}

\* Values found around the error object in the model's inputs: as context
\* above it, or as sources below it.
WrapNodes == {Msg, GitErr("Net", Certificate), HttpNotSuccessful(502)}

SeqsUpTo(S, n) == UNION {[1..k -> S] : k \in 0..n}

\* chain: the causes, outermost first; vis: how many of them downcast_ref
\* sees (the context layers and the error object).
Error(chain, vis) == [chain |-> chain, vis |-> vis]

Plain(node) == Error(<<node>>, 1)

\* anyhow::Error::context: one more visible layer on top.
context(err, c) == Error(<<c>> \o err.chain, err.vis + 1)

\* An error type that holds err as its source(): the wrapper is the only
\* node downcast_ref sees.
wrap_source(node, err) == Error(<<node>> \o err.chain, 1)

Errors ==
    {Error(w \o <<b>> \o s, Len(w) + 1) :
        w \in SeqsUpTo(WrapNodes, MaxDepth - 1),
        b \in Nodes,
        s \in SeqsUpTo(WrapNodes, MaxDepth - 1)}

ClassifierInputs == {e \in Errors : Len(e.chain) <= MaxDepth}

NoError == Error(<<NoNode>>, 1)
ShellError == Plain(IoNode)
ConfigError == Plain(ConfigNode)

\* anyhow::Error::downcast_ref::<T>: the first visible node of type t.
Visible(err, t) == {i \in 1..err.vis : err.chain[i].type = t}

downcast_ref(err, t) ==
    IF Visible(err, t) = {} THEN NoNode
    ELSE err.chain[CHOOSE i \in Visible(err, t) : \A j \in Visible(err, t) : i <= j]

\* anyhow::Error::root_cause: the last node of the chain.
root_cause(err) == err.chain[Len(err.chain)]

----------------------------------------------------------------------------
(* The classifier                                                          *)

is_couldnt_connect(c) == c.code = 7
is_couldnt_resolve_proxy(c) == c.code = 5
is_couldnt_resolve_host(c) == c.code = 6
is_operation_timedout(c) == c.code = 28
is_recv_error(c) == c.code = 56
is_send_error(c) == c.code = 55
is_http2_error(c) == c.code = 16
is_http2_stream_error(c) == c.code = 92
is_ssl_connect_error(c) == c.code = 35
is_partial_file(c) == c.code = 18

\* GitArm without the test of the code: a certificate failure is retried.
GitArm_any_code(err) ==
    LET git_err == downcast_ref(err, "git2") IN
    IF git_err # NoNode /\ git_err.class \in {"Net", "Os", "Zlib", "Http"}
    THEN <<TRUE>>
    ELSE <<>>

\* The arm for git2::Error: Some(verdict) when it returns, None when the
\* function goes on to the next test.
GitArm(err) ==
    LET git_err == downcast_ref(err, "git2") IN
    IF git_err # NoNode /\ git_err.class \in {"Net", "Os", "Zlib", "Http"}
    THEN <<git_err.code # Certificate>>
    ELSE <<>>

\* CurlArm without the test is_http2_stream_error.
CurlArm_no_http2_stream(err) ==
    LET curl_err == downcast_ref(err, "curl") IN
    /\ curl_err # NoNode
    /\ \/ is_couldnt_connect(curl_err)
       \/ is_couldnt_resolve_proxy(curl_err)
       \/ is_couldnt_resolve_host(curl_err)
       \/ is_operation_timedout(curl_err)
       \/ is_recv_error(curl_err)
       \/ is_send_error(curl_err)
       \/ is_http2_error(curl_err)
       \/ is_ssl_connect_error(curl_err)
       \/ is_partial_file(curl_err)

CurlArm(err) ==
    LET curl_err == downcast_ref(err, "curl") IN
    /\ curl_err # NoNode
    /\ \/ is_couldnt_connect(curl_err)
       \/ is_couldnt_resolve_proxy(curl_err)
       \/ is_couldnt_resolve_host(curl_err)
       \/ is_operation_timedout(curl_err)
       \/ is_recv_error(curl_err)
       \/ is_send_error(curl_err)
       \/ is_http2_error(curl_err)
       \/ is_http2_stream_error(curl_err)
       \/ is_ssl_connect_error(curl_err)
       \/ is_partial_file(curl_err)

\* HttpArm with the upper end of the range included.
HttpArm_upto_600(err) ==
    LET not_200 == downcast_ref(err, "http") IN
    /\ not_200 # NoNode
    /\ 500 <= not_200.code
    /\ not_200.code <= 600

HttpArm(err) ==
    LET not_200 == downcast_ref(err, "http") IN
    /\ not_200 # NoNode
    /\ 500 <= not_200.code
    /\ not_200.code < 600

\* FetchArm that does not ask the error whether it is spurious.
FetchArm_any(err) ==
    LET fetch_err == downcast_ref(err, "fetch") IN
    fetch_err # NoNode

FetchArm(err) ==
    LET fetch_err == downcast_ref(err, "fetch") IN
    /\ fetch_err # NoNode
    /\ fetch_err.spurious

Arms(err, otherwise) ==
    IF GitArm(err) # <<>> THEN GitArm(err)[1]
    ELSE IF CurlArm(err) THEN TRUE
    ELSE IF HttpArm(err) THEN TRUE
    ELSE IF FetchArm(err) THEN TRUE
    ELSE otherwise

\* maybe_spurious ending in true: an error it knows nothing of is retried.
maybe_spurious_default_true(err) == Arms(err, TRUE)

\* maybe_spurious looking at the outermost value only, not through the
\* context above the error object.
maybe_spurious_outermost(err) == Arms(Error(<<err.chain[1]>>, 1), FALSE)

maybe_spurious(err) ==
    IF GitArm(err) # <<>> THEN GitArm(err)[1]
    ELSE IF CurlArm(err) THEN TRUE
    ELSE IF HttpArm(err) THEN TRUE
    ELSE IF FetchArm(err) THEN TRUE
    ELSE FALSE

----------------------------------------------------------------------------
(* Results, configuration and shell                                        *)

\* The values an operation can produce.
Values == {"a", "b"}

\* CargoResult<T>.
Ok(v) == [tag |-> "Ok", val |-> v, err |-> NoError]
Err(e) == [tag |-> "Err", val |-> "-", err |-> e]
NoResult == [tag |-> "-", val |-> "-", err |-> NoError]

\* CargoResult<Option<T>>: opt is <<>> for None and <<v>> for Some(v).
OkOpt(o) == [tag |-> "Ok", opt |-> o, err |-> NoError]
ErrOpt(e) == [tag |-> "Err", opt |-> <<>>, err |-> e]

\* other.map(Some)
map_Some(r) == IF r.tag = "Ok" THEN OkOpt(<<r.val>>) ELSE ErrOpt(r.err)

\* Option<u32>::unwrap_or
unwrap_or(o, d) == IF o = <<>> THEN d ELSE o[1]

\* The configurations: readable or not, net.retry absent or set.
Configs == [readable : BOOLEAN, retry : {<<>>} \cup {<<n>> : n \in 0..MaxRetry}]

\* config.net_config(): the [net] table, or the error of reading it.
net_config(cfg) ==
    IF cfg.readable THEN [tag |-> "Ok", retry |-> cfg.retry, err |-> NoError]
    ELSE [tag |-> "Err", retry |-> <<>>, err |-> ConfigError]

\* format!("spurious network error ({} tries remaining): {}", ..)
format(tries, cause) == [tries |-> tries, cause |-> cause]

\* Shell::warn: the line is written, or the write fails.  who names the
\* session that wrote the line.
warn(sh, who, msg, sink_ok) ==
    IF sink_ok
    THEN [tag |-> "Ok", shell |-> Append(sh, [who |-> who, msg |-> msg])]
    ELSE [tag |-> "Err", shell |-> sh]

----------------------------------------------------------------------------
(* Retry                                                                   *)

\* Retry::new that falls back to the default when the configuration
\* cannot be read.
Retry_new_ignores_error(cfg) ==
    LET nc == net_config(cfg) IN
    [tag |-> "Ok", remaining |-> unwrap_or(nc.retry, DefaultRetry),
     err |-> NoError]

\* Retry::new with unwrap_or(3).
Retry_new_default_3(cfg) ==
    LET nc == net_config(cfg) IN
    IF nc.tag = "Err" THEN [tag |-> "Err", remaining |-> 0, err |-> nc.err]
    ELSE [tag |-> "Ok", remaining |-> unwrap_or(nc.retry, 3), err |-> NoError]

\* Retry::new: the budget, or the configuration's error.
Retry_new(cfg) ==
    LET nc == net_config(cfg) IN
    IF nc.tag = "Err" THEN [tag |-> "Err", remaining |-> 0, err |-> nc.err]
    ELSE [tag |-> "Ok", remaining |-> unwrap_or(nc.retry, DefaultRetry),
          err |-> NoError]

TryWith(guard, shown, left, wrapped, remaining, sh, who, out, sink_ok) ==
    IF out.tag = "Err" /\ maybe_spurious(out.err) /\ guard
    THEN LET msg == format(shown, root_cause(out.err))
             w == warn(sh, who, msg, sink_ok)
         IN  IF w.tag = "Err"
             THEN [ret |-> ErrOpt(ShellError), remaining |-> remaining,
                   shell |-> w.shell, invoked |-> 1, warning |-> "failed"]
             ELSE [ret |-> OkOpt(<<>>), remaining |-> left,
                   shell |-> w.shell, invoked |-> 1, warning |-> "written"]
    ELSE [ret |-> map_Some(wrapped), remaining |-> remaining, shell |-> sh,
          invoked |-> 1, warning |-> "none"]

\* try without self.remaining -= 1.
try_keeps_budget(remaining, sh, who, out, sink_ok) ==
    TryWith(remaining > 0, remaining, remaining, out, remaining, sh, who, out,
            sink_ok)

\* try that keeps the last unit of the budget: remaining > 1.
try_stops_early(remaining, sh, who, out, sink_ok) ==
    TryWith(remaining > 1, remaining, remaining - 1, out, remaining, sh, who,
            out, sink_ok)

\* try that returns a failure with context added to it.
try_adds_context(remaining, sh, who, out, sink_ok) ==
    TryWith(remaining > 0, remaining, remaining - 1,
            IF out.tag = "Err" THEN Err(context(out.err, Msg)) ELSE out,
            remaining, sh, who, out, sink_ok)

\* try without the test self.remaining > 0.
try_no_budget_test(remaining, sh, who, out, sink_ok) ==
    TryWith(TRUE, remaining, remaining - 1, out, remaining, sh, who, out,
            sink_ok)

\* try that retries on a budget of 0 without counting it.
try_retries_at_zero(remaining, sh, who, out, sink_ok) ==
    TryWith(TRUE, remaining, IF remaining > 0 THEN remaining - 1 ELSE 0, out,
            remaining, sh, who, out, sink_ok)

\* try that formats the warning after the decrement.
try_shows_after(remaining, sh, who, out, sink_ok) ==
    TryWith(remaining > 0, remaining - 1, remaining - 1, out, remaining, sh,
            who, out, sink_ok)

\* try that drops the result of warn instead of returning its error.
try_ignores_warn_error(remaining, sh, who, out, sink_ok) ==
    IF out.tag = "Err" /\ maybe_spurious(out.err) /\ remaining > 0
    THEN LET msg == format(remaining, root_cause(out.err))
             w == warn(sh, who, msg, sink_ok)
         IN  [ret |-> OkOpt(<<>>), remaining |-> remaining - 1,
              shell |-> w.shell, invoked |-> 1,
              warning |-> IF w.tag = "Err" THEN "failed" ELSE "written"]
    ELSE [ret |-> map_Some(out), remaining |-> remaining, shell |-> sh,
          invoked |-> 1, warning |-> "none"]

\* try with self.remaining -= 1 before the warning is written.
try_decrements_first(remaining, sh, who, out, sink_ok) ==
    IF out.tag = "Err" /\ maybe_spurious(out.err) /\ remaining > 0
    THEN LET msg == format(remaining, root_cause(out.err))
             w == warn(sh, who, msg, sink_ok)
         IN  IF w.tag = "Err"
             THEN [ret |-> ErrOpt(ShellError), remaining |-> remaining - 1,
                   shell |-> w.shell, invoked |-> 1, warning |-> "failed"]
             ELSE [ret |-> OkOpt(<<>>), remaining |-> remaining - 1,
                   shell |-> w.shell, invoked |-> 1, warning |-> "written"]
    ELSE [ret |-> map_Some(out), remaining |-> remaining, shell |-> sh,
          invoked |-> 1, warning |-> "none"]

\* Retry::try on a budget of `remaining`, where f() returns `out` and the
\* shell write succeeds iff sink_ok.  Gives the returned value, the budget
\* and the shell afterwards, the number of calls of f, and what became of
\* the warning: "none" (not attempted), "written" or "failed".
try(remaining, sh, who, out, sink_ok) ==
    IF out.tag = "Err" /\ maybe_spurious(out.err) /\ remaining > 0
    THEN LET msg == format(remaining, root_cause(out.err))
             w == warn(sh, who, msg, sink_ok)
         IN  IF w.tag = "Err"
             THEN [ret |-> ErrOpt(ShellError), remaining |-> remaining,
                   shell |-> w.shell, invoked |-> 1, warning |-> "failed"]
             ELSE [ret |-> OkOpt(<<>>), remaining |-> remaining - 1,
                   shell |-> w.shell, invoked |-> 1, warning |-> "written"]
    ELSE [ret |-> map_Some(out), remaining |-> remaining, shell |-> sh,
          invoked |-> 1, warning |-> "none"]

NoTry == [ret |-> ErrOpt(NoError), remaining |-> 0, shell |-> <<>>,
          invoked |-> 0, warning |-> "none"]

----------------------------------------------------------------------------
(* The state machine                                                       *)

VARIABLES
    config,     \* the Config shared by the sessions
    shell,      \* the lines written to config.shell(), oldest first
    pc,         \* per session: "idle", "new", "loop", "done"
    remaining,  \* per session: retry.remaining
    initial,    \* per session: retry.remaining as Retry::new set it
    calls,      \* per session: invocations of the callback so far
    hist,       \* per session: what the callback returned, oldest first
    broken,     \* per session: a write of a warning has failed
    result,     \* per session: what with_retry returned
    feed,       \* the outcomes the callbacks of this run can return
    cerr,       \* the error under test
    cpc,        \* the test's position: "idle", "in", "out", "tried"
    verdict,    \* maybe_spurious(cerr)
    cbudget,    \* the budget of the Retry under test
    cout,       \* what f() returned in the call of try under test
    csink,      \* whether the shell could be written to in that call
    ctry        \* what that call of try did

vars == <<config, shell, pc, remaining, initial, calls, hist, broken, result,
          feed, cerr, cpc, verdict, cbudget, cout, csink, ctry>>

sessionVars == <<config, shell, pc, remaining, initial, calls, hist, broken,
                 result, feed>>
unitVars == <<cerr, cpc, verdict, cbudget, cout, csink, ctry>>

\* The errors the callback fails with in a session.
SessionErrors ==
    {Plain(HttpNotSuccessful(502)),
     Plain(HttpNotSuccessful(501)),
     Plain(HttpNotSuccessful(404)),
     Plain(Msg),
     Plain(GitErr("Net", -1)),
     Plain(GitErr("Http", Certificate)),
     Plain(CurlErr(7)),
     wrap_source(FetchErr(TRUE), Plain(Msg)),
     context(Plain(HttpNotSuccessful(501)), Msg),
     context(context(Plain(HttpNotSuccessful(502)), Msg), Msg),
     wrap_source(Msg, Plain(HttpNotSuccessful(502)))}

Outcomes == {Ok(v) : v \in Values} \cup {Err(e) : e \in SessionErrors}

\* No correct run calls the callback this often; the guard keeps the
\* state space finite whatever try does to the budget.
CallCap == MaxRetry + DefaultRetry + 2

InitSessions(running, outcomes) ==
    /\ feed = outcomes
    /\ config \in Configs
    /\ shell = <<>>
    /\ pc = [s \in Sessions |-> IF s \in running THEN "new" ELSE "idle"]
    /\ remaining = [s \in Sessions |-> 0]
    /\ initial = [s \in Sessions |-> 0]
    /\ calls = [s \in Sessions |-> 0]
    /\ hist = [s \in Sessions |-> <<>>]
    /\ broken = [s \in Sessions |-> FALSE]
    /\ result = [s \in Sessions |-> NoResult]

InitUnit(inputs, budgets, at) ==
    /\ cerr \in inputs
    /\ cpc = at
    /\ verdict = FALSE
    /\ cbudget \in budgets
    /\ cout = NoResult
    /\ csink = TRUE
    /\ ctry = NoTry

\* One call of with_retry.
Init ==
    /\ InitSessions({1}, Outcomes)
    /\ InitUnit({NoError}, {0}, "idle")

\* with_retry, line 114: let mut retry = Retry::new(config)?;
New(s) ==
    /\ pc[s] = "new"
    /\ LET r == Retry_new(config) IN
       IF r.tag = "Err"
       THEN /\ result' = [result EXCEPT ![s] = Err(r.err)]
            /\ pc' = [pc EXCEPT ![s] = "done"]
            /\ UNCHANGED <<remaining, initial>>
       ELSE /\ remaining' = [remaining EXCEPT ![s] = r.remaining]
            /\ initial' = [initial EXCEPT ![s] = r.remaining]
            /\ pc' = [pc EXCEPT ![s] = "loop"]
            /\ UNCHANGED result
    /\ UNCHANGED <<config, shell, calls, hist, broken, feed>>
    /\ UNCHANGED unitVars

\* A turn of the loop on a budget kept in one place for all the sessions:
\* what the turn leaves of it is every session's remaining.
Attempt_shared_budget(s) ==
    /\ pc[s] = "loop"
    /\ calls[s] < CallCap
    /\ \E out \in feed, sink_ok \in BOOLEAN :
        LET r == try(remaining[s], shell, s, out, sink_ok) IN
        /\ calls' = [calls EXCEPT ![s] = @ + r.invoked]
        /\ hist' = [hist EXCEPT ![s] = Append(@, out)]
        /\ broken' = [broken EXCEPT ![s] = @ \/ r.warning = "failed"]
        /\ remaining' = [t \in Sessions |-> r.remaining]
        /\ shell' = r.shell
        /\ IF r.ret.tag = "Err"
           THEN /\ result' = [result EXCEPT ![s] = Err(r.ret.err)]
                /\ pc' = [pc EXCEPT ![s] = "done"]
           ELSE IF r.ret.opt # <<>>
           THEN /\ result' = [result EXCEPT ![s] = Ok(r.ret.opt[1])]
                /\ pc' = [pc EXCEPT ![s] = "done"]
           ELSE UNCHANGED <<result, pc>>
    /\ UNCHANGED <<config, initial, feed>>
    /\ UNCHANGED unitVars

\* with_retry, lines 115-119: one turn of the loop.
Attempt(s) ==
    /\ pc[s] = "loop"
    /\ calls[s] < CallCap
    /\ \E out \in feed, sink_ok \in BOOLEAN :
        LET r == try(remaining[s], shell, s, out, sink_ok) IN
        /\ calls' = [calls EXCEPT ![s] = @ + r.invoked]
        /\ hist' = [hist EXCEPT ![s] = Append(@, out)]
        /\ broken' = [broken EXCEPT ![s] = @ \/ r.warning = "failed"]
        /\ remaining' = [remaining EXCEPT ![s] = r.remaining]
        /\ shell' = r.shell
        /\ IF r.ret.tag = "Err"
           THEN /\ result' = [result EXCEPT ![s] = Err(r.ret.err)]
                /\ pc' = [pc EXCEPT ![s] = "done"]
           ELSE IF r.ret.opt # <<>>
           THEN /\ result' = [result EXCEPT ![s] = Ok(r.ret.opt[1])]
                /\ pc' = [pc EXCEPT ![s] = "done"]
           ELSE UNCHANGED <<result, pc>>
    /\ UNCHANGED <<config, initial, feed>>
    /\ UNCHANGED unitVars

Next == \E s \in Sessions : New(s) \/ Attempt(s)

Spec == Init /\ [][Next]_vars

\* One call of with_retry in which every step that can be taken is taken in
\* the end: each invocation of the callback and each write to the shell
\* returns.
LiveOutcomes ==
    {Ok("a"), Err(Plain(HttpNotSuccessful(502))),
     Err(context(Plain(CurlErr(28)), Msg)), Err(Plain(Msg))}

InitLive ==
    /\ InitSessions({1}, LiveOutcomes)
    /\ InitUnit({NoError}, {0}, "idle")

SpecLive == InitLive /\ [][Next]_vars /\ WF_vars(Next)

\* Two calls of with_retry on the same Config, their steps interleaved in
\* every order.
ConcurrentOutcomes ==
    {Ok("a"), Err(Plain(HttpNotSuccessful(502))), Err(Plain(Msg))}

InitConcurrent ==
    /\ InitSessions({1, 2}, ConcurrentOutcomes)
    /\ InitUnit({NoError}, {0}, "idle")

SpecConcurrent == InitConcurrent /\ [][Next]_vars

\* The classifier and one call of Retry::try on their own: every input
\* error and budget, the classifier's verdict, then the call.
InitClassifier ==
    /\ InitSessions({}, {})
    /\ config = [readable |-> TRUE, retry |-> <<>>]
    /\ InitUnit(ClassifierInputs, 0..MaxRetry, "in")

Classify ==
    /\ cpc = "in"
    /\ verdict' = maybe_spurious(cerr)
    /\ cpc' = "out"
    /\ UNCHANGED <<cerr, cbudget, cout, csink, ctry>>
    /\ UNCHANGED sessionVars

TryOnce ==
    /\ cpc = "out"
    /\ \E out \in {Err(cerr)} \cup {Ok(v) : v \in Values}, sink_ok \in BOOLEAN :
        /\ cout' = out
        /\ csink' = sink_ok
        /\ ctry' = try(cbudget, <<>>, 1, out, sink_ok)
    /\ cpc' = "tried"
    /\ UNCHANGED <<cerr, verdict, cbudget>>
    /\ UNCHANGED sessionVars

NextClassifier == Classify \/ TryOnce

SpecClassifier == InitClassifier /\ [][NextClassifier]_vars

----------------------------------------------------------------------------
(* Vocabulary of the properties                                            *)

\* The outcome of the latest call of the callback.
last(s) == IF hist[s] = <<>> THEN NoResult ELSE hist[s][Len(hist[s])]

\* The lines session s wrote to the shell.
IsBy(s, line) == line.who = s
Warnings(s) == SelectSeq(shell, LAMBDA line : IsBy(s, line))

Retryable(out) == out.tag = "Err" /\ maybe_spurious(out.err)

\* The errors no signature of the classifier is about: no cause in the
\* chain is a git2, curl, HttpNotSuccessful or fetch error.
Unknown(err) ==
    \A i \in 1..Len(err.chain) :
        err.chain[i].type \notin {"git2", "curl", "http", "fetch"}

\* The error object under the context, and whether all the context above
\* it is description.
Object(err) == err.chain[err.vis]
Described(err) == \A i \in 1..(err.vis - 1) : err.chain[i] = Msg

\* A root cause under one or more layers of description.
Wrapped(err) == err.vis >= 2 /\ err.vis = Len(err.chain) /\ Described(err)

AllRetryable(h) == \A i \in 1..Len(h) : Retryable(h[i])

Front(h) == SubSeq(h, 1, Len(h) - 1)

Line(s, tries, cause) == [who |-> s, msg |-> format(tries, cause)]

----------------------------------------------------------------------------
(* Properties                                                              *)

\* C1: whatever the initial budget N and the outcomes, one call of
\* with_retry invokes the operation at most N + 1 times.
ThmC1 == \A s \in Sessions : calls[s] <= initial[s] + 1

WitC1 ==
    /\ pc[1] = "done"
    /\ initial[1] >= 2
    /\ calls[1] = initial[1] + 1

\* C2: when the outcomes are retryable failures followed by a success, L of
\* them with L <= budget + 1, and the shell works, with_retry goes on to the
\* success and returns it, with exactly L - 1 warnings written and remaining
\* lowered by exactly L - 1.
ThmC2 ==
    \A s \in Sessions :
        LET h == hist[s]
            L == Len(h)
        IN  /\ (/\ pc[s] \in {"loop", "done"}
                /\ config.readable
                /\ AllRetryable(h)
                /\ L <= initial[s]
                /\ ~broken[s])
               => /\ pc[s] = "loop"
                  /\ Len(Warnings(s)) = L
                  /\ remaining[s] = initial[s] - L
            /\ (/\ L >= 1
                /\ L <= initial[s] + 1
                /\ AllRetryable(Front(h))
                /\ h[L].tag = "Ok"
                /\ ~broken[s])
               => /\ pc[s] = "done"
                  /\ result[s] = h[L]
                  /\ Len(Warnings(s)) = L - 1
                  /\ remaining[s] = initial[s] - (L - 1)

WitC2 ==
    /\ pc[1] = "done"
    /\ initial[1] >= 2
    /\ Len(hist[1]) = initial[1] + 1
    /\ AllRetryable(Front(hist[1]))
    /\ result[1].tag = "Ok"
    /\ remaining[1] = 0

\* C3: a turn of the loop whose failure is fatal, or retryable with the
\* budget at 0, ends with_retry with exactly the error the operation just
\* returned, and writes no warning.
ThmC3 ==
    [][\A s \in Sessions :
        (/\ pc[s] = "loop"
         /\ hist'[s] # hist[s]
         /\ last(s)'.tag = "Err"
         /\ (~maybe_spurious(last(s)'.err) \/ remaining[s] = 0))
        => /\ pc'[s] = "done"
           /\ result'[s] = last(s)'
           /\ shell' = shell]_vars

WitC3 ==
    /\ pc[1] = "done"
    /\ Len(hist[1]) >= 2
    /\ hist[1][1] # last(1)
    /\ Retryable(last(1))
    /\ remaining[1] = 0
    /\ result[1] = last(1)
    /\ Len(shell) = Len(hist[1]) - 1

\* C4: remaining is always between 0 and its initial value, and no step of
\* a session raises it or lowers it from 0.
ThmC4 ==
    /\ [](\A s \in Sessions : 0 <= remaining[s] /\ remaining[s] <= initial[s])
    /\ [][\A s \in Sessions :
            pc[s] # "new"
            => /\ remaining'[s] <= remaining[s]
               /\ (remaining[s] = 0 => remaining'[s] = 0)]_vars

WitC4 ==
    /\ pc[1] = "done"
    /\ initial[1] >= 2
    /\ remaining[1] = 0
    /\ Retryable(last(1))

\* C5: a first failure that no signature of the classifier is about is
\* returned after exactly one invocation and no warning, whatever the
\* budget.
ThmC5 ==
    \A s \in Sessions :
        (/\ hist[s] # <<>>
         /\ hist[s][1].tag = "Err"
         /\ Unknown(hist[s][1].err))
        => /\ pc[s] = "done"
           /\ Len(hist[s]) = 1
           /\ calls[s] = 1
           /\ result[s] = hist[s][1]
           /\ Warnings(s) = <<>>
           /\ remaining[s] = initial[s]

WitC5 ==
    /\ initial[1] = 3
    /\ hist[1] = <<Err(Plain(Msg))>>
    /\ result[1] = Err(Plain(Msg))
    /\ shell = <<>>

\* C6: with remaining at 0 a failure is returned at once, retryable or not:
\* on a budget of 0 the first failure (an HTTP 502, say) is returned after
\* one invocation and no warning.
ThmC6 ==
    /\ [](\A s \in Sessions :
            (/\ pc[s] \in {"loop", "done"}
             /\ initial[s] = 0
             /\ hist[s] # <<>>
             /\ hist[s][1].tag = "Err")
            => /\ pc[s] = "done"
               /\ calls[s] = 1
               /\ result[s] = hist[s][1]
               /\ Warnings(s) = <<>>)
    /\ [][\A s \in Sessions :
            (/\ pc[s] = "loop"
             /\ remaining[s] = 0
             /\ hist'[s] # hist[s]
             /\ last(s)'.tag = "Err")
            => /\ pc'[s] = "done"
               /\ calls'[s] = calls[s] + 1
               /\ result'[s] = last(s)'
               /\ shell' = shell]_vars

WitC6 ==
    /\ pc[1] = "done"
    /\ initial[1] = 0
    /\ hist[1] = <<Err(Plain(HttpNotSuccessful(502)))>>
    /\ calls[1] = 1
    /\ result[1] = Err(Plain(HttpNotSuccessful(502)))
    /\ shell = <<>>

\* C7: a git2 error with the code Certificate is not classified retryable,
\* whatever its class, and try returns it without a retry whatever the
\* budget; a git2 error of class Net, Os, Zlib or Http with another code is
\* classified retryable.
ThmC7 ==
    (/\ cpc \in {"out", "tried"}
     /\ Described(cerr)
     /\ Object(cerr).type = "git2")
    => LET g == Object(cerr) IN
       /\ g.code = Certificate => ~verdict
       /\ (g.code # Certificate /\ g.class \in {"Net", "Os", "Zlib", "Http"})
          => verdict
       /\ (cpc = "tried" /\ cout = Err(cerr) /\ g.code = Certificate)
          => /\ ctry.ret = ErrOpt(cerr)
             /\ ctry.remaining = cbudget
             /\ ctry.shell = <<>>

WitC7 ==
    /\ cpc = "tried"
    /\ cerr = Plain(GitErr("Http", Certificate))
    /\ cbudget >= 2
    /\ cout = Err(cerr)
    /\ ~verdict
    /\ ctry.ret = ErrOpt(cerr)

\* C8: an HttpNotSuccessful error is classified retryable exactly when its
\* status code is in 500..599: 502 is, and 404, 499 and 600 are not.
ThmC8 ==
    (/\ cpc \in {"out", "tried"}
     /\ Described(cerr)
     /\ Object(cerr).type = "http")
    => verdict = (Object(cerr).code \in 500..599)

WitC8 ==
    /\ cpc = "out"
    /\ cerr = Plain(HttpNotSuccessful(599))
    /\ verdict

\* C9: a retryable root cause under one, two or more layers of context is
\* classified retryable, and try retries it as it does the cause alone: on
\* a budget above 0 it writes the warning naming the root cause and, once
\* written, returns Ok(None) with the budget one lower.
ThmC9 ==
    (/\ cpc \in {"out", "tried"}
     /\ Wrapped(cerr)
     /\ maybe_spurious(Plain(root_cause(cerr))))
    => /\ verdict
       /\ (cpc = "tried" /\ cout = Err(cerr) /\ cbudget > 0)
          => /\ ctry.warning # "none"
             /\ ctry.warning = "written"
                => /\ ctry.ret = OkOpt(<<>>)
                   /\ ctry.remaining = cbudget - 1
                   /\ ctry.shell = <<Line(1, cbudget, root_cause(cerr))>>

WitC9 ==
    /\ cpc = "tried"
    /\ cerr = context(context(Plain(HttpNotSuccessful(502)), Msg), Msg)
    /\ verdict
    /\ cout = Err(cerr)
    /\ ctry.ret = OkOpt(<<>>)
    /\ ctry.remaining = cbudget - 1

\* C10: a session writes one warning per retry, in the order of the
\* attempts; the k-th shows N - (k - 1) tries remaining, N the initial
\* budget, and the root cause of the k-th failure.  On a budget of 2 the
\* outcomes 502, 501, success give success after the two warnings showing
\* 2 and then 1.
ThmC10 ==
    \A s \in Sessions :
        LET w == Warnings(s)
            h == hist[s]
        IN  /\ pc[s] = "loop" /\ ~broken[s] => Len(w) = Len(h)
            /\ pc[s] = "done" /\ h # <<>> => Len(w) = Len(h) - 1
            /\ \A k \in 1..Len(w) :
                /\ k <= Len(h)
                /\ h[k].tag = "Err"
                /\ w[k] = Line(s, initial[s] - (k - 1), root_cause(h[k].err))
            /\ (/\ initial[s] = 2
                /\ h = <<Err(Plain(HttpNotSuccessful(502))),
                         Err(Plain(HttpNotSuccessful(501))), Ok("a")>>)
               => /\ pc[s] = "done"
                  /\ result[s] = Ok("a")
                  /\ w = <<Line(s, 2, HttpNotSuccessful(502)),
                           Line(s, 1, HttpNotSuccessful(501))>>

WitC10 ==
    /\ initial[1] = 2
    /\ hist[1] = <<Err(Plain(HttpNotSuccessful(502))),
                   Err(Plain(HttpNotSuccessful(501))), Ok("a")>>
    /\ result[1] = Ok("a")
    /\ Len(shell) = 2

\* C11: when the write of a warning fails, with_retry ends at once with the
\* error of the write, not the operation's, and the operation is not
\* invoked again, whatever budget is left.
ThmC11 ==
    /\ [](\A s \in Sessions :
            broken[s]
            => /\ pc[s] = "done"
               /\ result[s] = Err(ShellError)
               /\ result[s] # last(s))
    /\ [][\A s \in Sessions :
            broken[s] => calls'[s] = calls[s] /\ hist'[s] = hist[s]]_vars

WitC11 ==
    /\ broken[1]
    /\ pc[1] = "done"
    /\ remaining[1] >= 2
    /\ Len(hist[1]) >= 2
    /\ Retryable(last(1))
    /\ result[1] = Err(ShellError)

\* C12: when the configuration cannot be read, with_retry returns the
\* configuration's error without invoking the operation or writing a
\* warning.
ThmC12 ==
    \A s \in Sessions :
        (~config.readable /\ pc[s] # "idle")
        => /\ calls[s] = 0
           /\ hist[s] = <<>>
           /\ shell = <<>>
           /\ pc[s] \in {"new", "done"}
           /\ pc[s] = "done" => result[s] = Err(ConfigError)

WitC12 ==
    /\ ~config.readable
    /\ config.retry = <<3>>
    /\ pc[1] = "done"
    /\ result[1] = Err(ConfigError)
    /\ calls[1] = 0

\* C13: without net.retry the initial budget is 2, so an operation that
\* always fails with a retryable error is invoked exactly 3 times, with
\* exactly 2 warnings, before its third error is returned; with net.retry
\* set to n the initial budget is n.
ThmC13 ==
    \A s \in Sessions :
        (config.readable /\ pc[s] \in {"loop", "done"})
        => /\ config.retry = <<>> => initial[s] = 2
           /\ config.retry # <<>> => initial[s] = config.retry[1]
           /\ (config.retry = <<>> /\ AllRetryable(hist[s]) /\ ~broken[s])
              => /\ Len(hist[s]) <= 3
                 /\ calls[s] = Len(hist[s])
                 /\ pc[s] = "done" <=> Len(hist[s]) = 3
                 /\ pc[s] = "done"
                    => /\ result[s] = hist[s][3]
                       /\ Len(Warnings(s)) = 2

WitC13 ==
    /\ config.readable
    /\ config.retry = <<>>
    /\ pc[1] = "done"
    /\ AllRetryable(hist[1])
    /\ calls[1] = 3
    /\ Len(shell) = 2
    /\ result[1] = hist[1][3]

\* C14: a curl error is classified retryable exactly when it is one of
\* couldn't connect (7), couldn't resolve proxy (5), couldn't resolve host
\* (6), operation timed out (28), receive error (56), send error (55),
\* HTTP/2 error (16), HTTP/2 stream error (92), SSL connect error (35),
\* partial file (18).
ThmC14 ==
    (/\ cpc \in {"out", "tried"}
     /\ Described(cerr)
     /\ Object(cerr).type = "curl")
    => verdict = (Object(cerr).code \in {7, 5, 6, 28, 56, 55, 16, 92, 35, 18})

WitC14 ==
    /\ cpc = "out"
    /\ cerr = Plain(CurlErr(92))
    /\ verdict

\* C15: for an error of the fetch subsystem the classifier's verdict is the
\* value of the error's own is_spurious.
ThmC15 ==
    (/\ cpc \in {"out", "tried"}
     /\ Described(cerr)
     /\ Object(cerr).type = "fetch")
    => verdict = Object(cerr).spurious

WitC15 ==
    /\ cpc = "out"
    /\ cerr = context(Plain(FetchErr(TRUE)), Msg)
    /\ verdict

\* with_retry run by itself from its loop on a budget of n: the outcomes h
\* are what the callback returns, in order, and the write of the warning
\* fails at the last of them iff fails.  Gives where the call stands once
\* h is used up or the call has returned.
RECURSIVE Alone(_, _, _, _)
Alone(st, h, fails, who) ==
    IF h = <<>> \/ st.pc = "done" THEN st
    ELSE LET r == try(st.remaining, st.shell, who, Head(h),
                      ~(fails /\ Len(h) = 1))
             ended == r.ret.tag = "Err" \/ r.ret.opt # <<>>
         IN  Alone([pc |-> IF ended THEN "done" ELSE "loop",
                    remaining |-> r.remaining,
                    shell |-> r.shell,
                    calls |-> st.calls + r.invoked,
                    result |-> IF r.ret.tag = "Err" THEN Err(r.ret.err)
                               ELSE IF r.ret.opt # <<>> THEN Ok(r.ret.opt[1])
                               ELSE st.result],
                   Tail(h), fails, who)

AloneFrom(n) ==
    [pc |-> "loop", remaining |-> n, shell |-> <<>>, calls |-> 0,
     result |-> NoResult]

\* C16: sessions whose steps interleave share no retry state: a step of
\* one session leaves the other's remaining, calls and result alone, and
\* each session stands where it would stand had it run by itself on the
\* outcomes its callback returned.
ThmC16 ==
    /\ [](\A s \in Sessions :
            (config.readable /\ pc[s] \in {"loop", "done"})
            => LET a == Alone(AloneFrom(initial[s]), hist[s], broken[s], s)
               IN  /\ pc[s] = a.pc
                   /\ result[s] = a.result
                   /\ calls[s] = a.calls
                   /\ remaining[s] = a.remaining
                   /\ Warnings(s) = a.shell)
    /\ [][\A s, t \in Sessions :
            (s # t /\ (pc'[t] # pc[t] \/ hist'[t] # hist[t]))
            => /\ remaining'[s] = remaining[s]
               /\ calls'[s] = calls[s]
               /\ hist'[s] = hist[s]
               /\ result'[s] = result[s]
               /\ pc'[s] = pc[s]]_vars

WitC16 ==
    /\ pc[1] = "done"
    /\ pc[2] = "done"
    /\ Len(shell) >= 3
    /\ shell[1].who = 2
    /\ shell[2].who = 1
    /\ shell[3].who = 2
    /\ result[1].tag = "Ok"
    /\ result[2] = Err(Plain(HttpNotSuccessful(502)))
    /\ remaining[1] = initial[1] - 1
    /\ remaining[2] = 0

\* C17: every call of with_retry returns in the end, whatever the callback
\* returns, an operation that fails with a retryable error at every
\* invocation included, as long as each invocation and each write of a
\* warning returns.
ThmC17 == <>(pc[1] = "done")

WitC17 ==
    /\ pc[1] = "done"
    /\ initial[1] = 3
    /\ Len(hist[1]) = 4
    /\ AllRetryable(hist[1])
    /\ result[1] = hist[1][4]
    /\ ~broken[1]

\* C18: in every state of a session the warnings written so far plus
\* remaining make the initial budget, and the operation has been invoked at
\* most once more than warnings have been written.
ThmC18 ==
    \A s \in Sessions :
        /\ Len(Warnings(s)) + remaining[s] = initial[s]
        /\ calls[s] <= Len(Warnings(s)) + 1

WitC18 ==
    /\ pc[1] = "done"
    /\ initial[1] = 3
    /\ Len(Warnings(1)) = 2
    /\ remaining[1] = 1
    /\ calls[1] = 3

\* The call of try under test is one that retries: the operation failed,
\* the failure is classified retryable, remaining was above 0 and the
\* warning could be written.
Retried == cout.tag = "Err" /\ verdict /\ cbudget > 0 /\ csink

\* The call of try under test is one whose warning could not be written.
WarnFailed == cout.tag = "Err" /\ verdict /\ cbudget > 0 /\ ~csink

\* The operation's own result, as try returns it.
OwnResult == IF cout.tag = "Ok" THEN OkOpt(<<cout.val>>) ELSE ErrOpt(cout.err)

\* C19 as stated: try invokes the operation once and returns Ok(None)
\* exactly when it retries, lowering remaining by 1; in every other case
\* remaining is unchanged and the operation's own result is returned.
OrigC19 ==
    cpc = "tried"
    => /\ ctry.invoked = 1
       /\ (ctry.ret = OkOpt(<<>>)) <=> Retried
       /\ Retried => ctry.remaining = cbudget - 1
       /\ ~Retried => (ctry.remaining = cbudget /\ ctry.ret = OwnResult)

\* C19, amended: try invokes the operation once and returns Ok(None)
\* exactly when it retries, lowering remaining by 1; in every other case
\* remaining is unchanged, and the operation's own result is returned on
\* success, on a fatal failure and on an exhausted budget, while the error
\* of the write is returned when the warning cannot be written.
ThmC19 ==
    cpc = "tried"
    => /\ ctry.invoked = 1
       /\ (ctry.ret = OkOpt(<<>>)) <=> Retried
       /\ Retried => ctry.remaining = cbudget - 1
       /\ ~Retried => ctry.remaining = cbudget
       /\ WarnFailed => ctry.ret = ErrOpt(ShellError)
       /\ (~Retried /\ ~WarnFailed) => ctry.ret = OwnResult

WitC19 ==
    /\ cpc = "tried"
    /\ WarnFailed
    /\ cerr = Plain(HttpNotSuccessful(502))
    /\ ctry.ret = ErrOpt(ShellError)
    /\ ctry.ret # OwnResult
    /\ ctry.remaining = cbudget

\* C20: a call of try whose warning cannot be written leaves remaining as
\* it was, and nothing in the shell.
ThmC20 ==
    (cpc = "tried" /\ WarnFailed)
    => /\ ctry.warning = "failed"
       /\ ctry.remaining = cbudget
       /\ ctry.shell = <<>>

WitC20 ==
    /\ cpc = "tried"
    /\ WarnFailed
    /\ cerr = Plain(CurlErr(28))
    /\ cbudget = 3
    /\ ctry.remaining = 3

====
